---- MODULE Spec2Model ----
(***************************************************************************)
(* Team Action Plan Manager: the storage layer of scripts/models.py        *)
(* (users, tasks, activity_logs, files), the in-memory session map and     *)
(* the handlers of scripts/handlers.py as the dispatcher of                *)
(* scripts/telegram_bot.py routes events to them.                          *)
(***************************************************************************)
EXTENDS Integers, Sequences, FiniteSets, TLC

VARIABLES
    users,            \* table users, row i has id i (AUTOINCREMENT)
    tasks,            \* table tasks, committed rows
    activity_logs,    \* table activity_logs
    files,            \* table files
    active_sessions,  \* BotHandlers.active_sessions: user id -> session dict
    now,              \* the clock, in ticks
    tz,               \* offset of the local clock to the storage engine's UTC clock
    plan,             \* how the storage engine runs ORDER BY created_at DESC
    calls,            \* create_task calls in flight, one connection each
    out               \* the response to the last inbound event

vars == <<users, tasks, activity_logs, files, active_sessions, now, tz, plan, calls,
          out>>

----------------------------------------------------------------------------
(* Bounds of the model *)
MaxNow == 2
MaxTasks == 2
MaxActs == 2
MaxCalls == 2

(* Time: a day has two ticks; local date and storage (UTC) date of a tick *)
TicksPerDay == 2
UtcDate(t) == t \div TicksPerDay
LocalDate(t) == (t + tz) \div TicksPerDay

----------------------------------------------------------------------------
(* Enumerations of models.py *)
UserStatus == {"pending", "active", "rejected"}
UserRole == {"manager", "technician", "commercial", "other"}
NoRole == "null"
NoTime == -1

Handles == {"h1", "h2"}          \* telegram ids of the people writing to the bot
BotHandle == "bot"               \* telegram id of the bot itself

NoUser == [id |-> 0, telegram_id |-> "null", status |-> "null",
           role |-> NoRole, last_login |-> NoTime]

----------------------------------------------------------------------------
(* UserManager *)

UserIds == 1..Len(users)

\* get_user_by_telegram_id: None when the connection or the query fails
get_user_by_telegram_id(tid, db) ==
    IF ~db THEN NoUser
    ELSE IF \E i \in UserIds : users[i].telegram_id = tid
         THEN users[CHOOSE i \in UserIds : users[i].telegram_id = tid]
         ELSE NoUser

\* register_user: the users table after the call, and its return value
register_user_ok(tid, db) ==
    db /\ ~(\E i \in UserIds : users[i].telegram_id = tid)

\* a registration that inserts without looking for the handle first, into a
\* table without UNIQUE(telegram_id)
register_user_table_dup(tid, db) ==
    IF db
    THEN Append(users, [id |-> Len(users) + 1, telegram_id |-> tid,
                        status |-> "pending", role |-> NoRole,
                        last_login |-> NoTime])
    ELSE users

\* a registration that stores the account as approved already
register_user_table_active(tid, db) ==
    IF register_user_ok(tid, db)
    THEN Append(users, [id |-> Len(users) + 1, telegram_id |-> tid,
                        status |-> "active", role |-> NoRole,
                        last_login |-> NoTime])
    ELSE users

register_user_table(tid, db) ==
    IF register_user_ok(tid, db)
    THEN Append(users, [id |-> Len(users) + 1, telegram_id |-> tid,
                        status |-> "pending", role |-> NoRole,
                        last_login |-> NoTime])
    ELSE users

\* an UPDATE without its WHERE id = ?: every account is stamped
update_last_login_all(uid, db) ==
    IF db /\ uid \in UserIds
    THEN [i \in UserIds |-> [users[i] EXCEPT !.last_login = now]]
    ELSE users

\* update_last_login: the users table after the call
update_last_login(uid, db) ==
    IF db /\ uid \in UserIds
    THEN [users EXCEPT ![uid].last_login = now]
    ELSE users

----------------------------------------------------------------------------
(* TaskManager *)

\* category_prefixes.get(category.lower(), 'TASK')
Lower(c) ==
    CASE c = "Repair" -> "repair"
      [] c = "INSTALLATION" -> "installation"
      [] OTHER -> c

CategoryPrefix(category) ==
    LET c == Lower(category) IN
    CASE c = "installation" -> "INST"
      [] c = "maintenance" -> "MAINT"
      [] c = "repair" -> "REP"
      [] c = "inspection" -> "INSP"
      [] c = "calibration" -> "CAL"
      [] c = "commissioning" -> "COMM"
      [] c = "training" -> "TRAIN"
      [] c = "emergency" -> "EMRG"
      [] c = "other" -> "OTHER"
      [] OTHER -> "TASK"

\* the decimal digits of n, most significant first
RECURSIVE Digits(_)
Digits(n) == IF n < 10 THEN <<n>> ELSE Append(Digits(n \div 10), n % 10)

\* f"{count:03d}": zero-padded to three digits, wider when count needs it
Pad3(n) ==
    LET d == Digits(n) IN
    IF Len(d) >= 3 THEN d
    ELSE IF Len(d) = 2 THEN <<0>> \o d
    ELSE <<0, 0>> \o d

\* a task code "PREFIX-YYMMDD-seq" as its three hyphen-separated parts
TaskCode(prefix, date, count) == <<prefix, date, Pad3(count)>>

\* task_code LIKE 'PREFIX-YYMMDD-%'
LikeCode(code, prefix, date) ==
    Len(code) >= 3 /\ code[1] = prefix /\ code[2] = date

\* SELECT COUNT(*) ... WHERE task_code LIKE ? AND DATE(created_at) = DATE('now')
CountToday(rows, prefix, date, t) ==
    Cardinality({i \in 1..Len(rows) :
                    /\ LikeCode(rows[i].task_code, prefix, date)
                    /\ UtcDate(rows[i].created_at) = UtcDate(t)})

\* _generate_task_code, run at tick t against the committed rows
generate_task_code(rows, category, t) ==
    LET prefix == CategoryPrefix(category)
        date_str == LocalDate(t)
        count == CountToday(rows, prefix, date_str, t) + 1
    IN  TaskCode(prefix, date_str, count)

\* a tasks table without the UNIQUE constraint
CodeTakenNever(rows, code) == FALSE

\* the UNIQUE constraint on tasks.task_code
CodeTaken(rows, code) == \E i \in 1..Len(rows) : rows[i].task_code = code

\* an INSERT that stores the task as urgent work in progress
NewTaskRowInProgress(rows, code, category, created_by, t) ==
    [id |-> Len(rows) + 1, task_code |-> code, category |-> category,
     status |-> "in_progress", priority |-> "high", created_by |-> created_by,
     created_at |-> t]

\* the row INSERT INTO tasks stores (status and priority by their defaults)
NewTaskRow(rows, code, category, created_by, t) ==
    [id |-> Len(rows) + 1, task_code |-> code, category |-> category,
     status |-> "to_do", priority |-> "normal", created_by |-> created_by,
     created_at |-> t]

\* The query has no second sort key, so the order of the rows of one
\* timestamp is the one the plan of the query gives them: a scan of the
\* table into a sorter leaves them by ascending id, a backward scan of an
\* index on created_at (scripts/database_setup.py creates one) by descending
\* id.
QueryPlans == {"sorter", "index"}

\* get_all_tasks: ORDER BY created_at DESC; [] when the storage fails
RECURSIVE SortDesc(_, _)
SortDesc(rows, ids) ==
    IF ids = {} THEN <<>>
    ELSE LET m == CHOOSE i \in ids :
                    \A j \in ids : \/ rows[i].created_at > rows[j].created_at
                                   \/ /\ rows[i].created_at = rows[j].created_at
                                      /\ IF plan = "sorter" THEN i <= j ELSE i >= j
         IN  <<rows[m]>> \o SortDesc(rows, ids \ {m})

get_all_tasks(status_filter, db) ==
    IF ~db THEN <<>>
    ELSE SortDesc(tasks, {i \in 1..Len(tasks) :
                            status_filter = "all" \/ tasks[i].status = status_filter})

\* get_task_by_code: the ids of the rows with that code (none: None)
get_task_by_code(code, db) ==
    IF ~db THEN {} ELSE {i \in 1..Len(tasks) : tasks[i].task_code = code}

----------------------------------------------------------------------------
(* ActivityManager *)

\* get_user_activities: WHERE user_id = ? ORDER BY start_time DESC LIMIT ?,
\* as the ids of the rows returned
RECURSIVE ActsDesc(_)
ActsDesc(ids) ==
    IF ids = {} THEN <<>>
    ELSE LET m == CHOOSE i \in ids :
                    \A j \in ids :
                        \/ activity_logs[i].start_time > activity_logs[j].start_time
                        \/ /\ activity_logs[i].start_time = activity_logs[j].start_time
                           /\ i <= j
         IN  <<m>> \o ActsDesc(ids \ {m})

Take(s, n) == IF Len(s) <= n THEN s ELSE SubSeq(s, 1, n)

Range(s) == {s[i] : i \in 1..Len(s)}

\* the query without its WHERE user_id = ?
get_user_activities_all(user_id, limit, db) ==
    IF ~db THEN {}
    ELSE Range(Take(ActsDesc({i \in 1..Len(activity_logs) : TRUE}), limit))

get_user_activities(user_id, limit, db) ==
    IF ~db THEN {}
    ELSE Range(Take(ActsDesc({i \in 1..Len(activity_logs) :
                                activity_logs[i].user_id = user_id}), limit))

\* get_user_stats: the rows its four queries count
get_user_stats(user_id, db) ==
    IF ~db THEN {}
    ELSE {i \in 1..Len(activity_logs) : activity_logs[i].user_id = user_id}

\* log_activity: INSERT INTO activity_logs; user_id REFERENCES users(id)
log_activity_ok(activity_type, user_id, db) == db /\ user_id \in UserIds

log_activity_table(activity_type, user_id, db) ==
    IF log_activity_ok(activity_type, user_id, db)
    THEN Append(activity_logs, [id |-> Len(activity_logs) + 1, user_id |-> user_id,
                                activity_type |-> activity_type, start_time |-> now])
    ELSE activity_logs

----------------------------------------------------------------------------
(* The dispatcher of telegram_bot.py and the events it receives *)

\* A text message, as the set of the commands and menu phrases it contains;
\* {} is free text that contains none of them.
Texts == { {"/start"}, {"/register"}, {"/help"}, {"My Tasks"}, {"New Task"},
           {"Log Activity"}, {"My Stats"}, {"Upload File"}, {"Schedule"},
           {"Settings"}, {"Help"}, {}, {"Log Activity", "Schedule"} }

\* the message handlers in the order _setup_handlers registers them
MessageFilters ==
    << <<"/start", "cmd_start">>, <<"/register", "cmd_register">>,
       <<"/help", "cmd_help">>, <<"My Tasks", "handle_my_tasks">>,
       <<"New Task", "handle_new_task">>, <<"Log Activity", "handle_log_activity">>,
       <<"My Stats", "handle_my_stats">>, <<"Upload File", "handle_upload_file">>,
       <<"Schedule", "handle_schedule">>, <<"Settings", "handle_settings">> >>

\* the first registered handler whose filter matches the text; "none" when
\* no filter matches (the update is dropped)
Route(text) ==
    LET hits == {i \in 1..Len(MessageFilters) : MessageFilters[i][1] \in text}
    IN  IF hits = {} THEN "none"
        ELSE MessageFilters[CHOOSE i \in hits : \A j \in hits : i <= j][2]

RouteOf == [text \in Texts |-> Route(text)]

\* callback data, as its underscore-separated parts
CallbackData ==
    { <<"start", "registration">>, <<"learn", "more">>,
      <<"tasks", "filter", "all">>, <<"tasks", "filter", "completed">>,
      <<"cat", "installation">>, <<"city", "tanger">>, <<"act", "repair">>,
      <<"upload", "task", "1">>, <<"upload", "task", "abc">>, <<"upload", "search">>,
      <<"stats", "personal">>, <<"stats", "team">>, <<"stats", "refresh">>,
      <<"stats", "activity">>, <<"schedule", "refresh">>,
      <<"noop">>, <<"tasks", "back">>, <<"tasks", "all", "page", "2">>,
      <<"cancel">> }

\* data.startswith(prefix)
StartsWith(data, prefix) ==
    Len(data) > Len(prefix) /\ SubSeq(data, 1, Len(prefix)) = prefix

\* int(s): the numerals the events carry; anything else raises ValueError
IsInt(s) == s \in {"1", "2", "3"}
ParseInt(s) == CASE s = "1" -> 1 [] s = "2" -> 2 [] s = "3" -> 3 [] OTHER -> 0

----------------------------------------------------------------------------
(* BotHandlers: access control *)

\* a response: who it goes to, the handler that sent it, what it says, the
\* activity_logs rows and the tasks rows its content was built from
Resp(to, handler, kind, acts, listed) ==
    [to |-> to, handler |-> handler, kind |-> kind, acts |-> acts,
     team_acts |-> {}, listed |-> listed]

NoResp == Resp("null", "null", "none", {}, <<>>)

\* a gate that lets every account in, whatever its status
check_user_access_any_status(tid, db) == get_user_by_telegram_id(tid, db)

\* _check_user_access: the user, or None (no account, not active, storage down)
check_user_access(tid, db) ==
    LET user == get_user_by_telegram_id(tid, db) IN
    IF user = NoUser THEN NoUser
    ELSE IF user.status /= "active" THEN NoUser
    ELSE user

\* a gate that stamps the last login of every account it finds, let in or not
check_user_access_table_always(tid, db, dbUpd) ==
    LET user == get_user_by_telegram_id(tid, db) IN
    IF user = NoUser THEN users ELSE update_last_login(user.id, dbUpd)

\* ... and the users table it leaves (update_last_login of an active user)
check_user_access_table(tid, db, dbUpd) ==
    LET user == check_user_access(tid, db) IN
    IF user = NoUser THEN users ELSE update_last_login(user.id, dbUpd)

\* a role check that lets every role pass
require_role_any(user, required_roles) == TRUE

\* _require_role
require_role(user, required_roles) == user.role \in required_roles

TaskCreators == {"manager", "technician"}

\* a session map updated key by key (dict.update), not replaced
SetSessionMerged(k, session) ==
    [i \in DOMAIN active_sessions \cup {k} |->
        IF i /= k THEN active_sessions[i]
        ELSE IF k \notin DOMAIN active_sessions THEN session
        ELSE [key \in DOMAIN active_sessions[k] \cup DOMAIN session |->
                 IF key \in DOMAIN session THEN session[key]
                 ELSE active_sessions[k][key]]]

\* one session shared by all the accounts that have one
SetSessionShared(k, session) ==
    [i \in DOMAIN active_sessions \cup {k} |-> session]

\* the session map with the session of user id k replaced
SetSession(k, session) ==
    [i \in DOMAIN active_sessions \cup {k} |->
        IF i = k THEN session ELSE active_sessions[i]]

TaskIds(rows) == [i \in 1..Len(rows) |-> rows[i].id]

\* StatsManager.get_global_stats: the activity_logs rows its week count covers
get_global_stats(db) ==
    IF ~db THEN {} ELSE {i \in 1..Len(activity_logs) : TRUE}

Frame == UNCHANGED <<tasks, activity_logs, files, now, tz, plan, calls>>

Denied(h, handler) == Resp(h, handler, "access_denied", {}, <<>>)

----------------------------------------------------------------------------
(* BotHandlers: command handlers *)

CmdStart(h, text, db, dbUpd) ==
    /\ RouteOf[text] = "cmd_start"
    /\ LET user == get_user_by_telegram_id(h, db) IN
       IF user /= NoUser /\ user.status = "active"
       THEN /\ out' = Resp(h, "cmd_start", "welcome_back", {}, <<>>)
            /\ users' = update_last_login(user.id, dbUpd)
       ELSE IF user /= NoUser /\ user.status = "pending"
       THEN /\ out' = Resp(h, "cmd_start", "registration_pending", {}, <<>>)
            /\ users' = users
       ELSE /\ out' = Resp(h, "cmd_start", "welcome_new", {}, <<>>)
            /\ users' = users
    /\ UNCHANGED active_sessions
    /\ Frame

\* cmd_register(message): registers message.from_user, answers in the chat
cmd_register_kind(from, db, dbReg) ==
    LET existing_user == get_user_by_telegram_id(from, db) IN
    IF existing_user /= NoUser
    THEN IF existing_user.status = "active" THEN "already_active"
         ELSE IF existing_user.status = "pending" THEN "already_pending"
         ELSE "was_rejected"
    ELSE IF register_user_ok(from, dbReg) THEN "registration_pending"
         ELSE "registration_failed"

cmd_register_table(from, db, dbReg) ==
    IF get_user_by_telegram_id(from, db) /= NoUser THEN users
    ELSE register_user_table(from, dbReg)

CmdRegister(h, text, db, dbReg) ==
    /\ RouteOf[text] = "cmd_register"
    /\ out' = Resp(h, "cmd_register", cmd_register_kind(h, db, dbReg), {}, <<>>)
    /\ users' = cmd_register_table(h, db, dbReg)
    /\ UNCHANGED active_sessions
    /\ Frame

CmdHelp(h, text) ==
    /\ RouteOf[text] = "cmd_help"
    /\ out' = Resp(h, "cmd_help", "help", {}, <<>>)
    /\ UNCHANGED <<users, active_sessions>>
    /\ Frame

----------------------------------------------------------------------------
(* BotHandlers: main menu handlers *)

\* _require_auth, then the handler's own response when the user is let in
Menu(h, db, dbUpd, resp) ==
    /\ users' = check_user_access_table(h, db, dbUpd)
    /\ out' = IF check_user_access(h, db) = NoUser
              THEN Denied(h, "_require_auth")
              ELSE resp
    /\ UNCHANGED active_sessions
    /\ Frame

HandleMyTasks(h, text, db, dbUpd) ==
    /\ RouteOf[text] = "handle_my_tasks"
    /\ Menu(h, db, dbUpd,
            Resp(h, "handle_my_tasks", "task_filters", {}, <<>>))

HandleNewTask(h, text, db, dbUpd) ==
    /\ RouteOf[text] = "handle_new_task"
    /\ Menu(h, db, dbUpd,
            IF ~require_role(check_user_access(h, db), TaskCreators)
            THEN Resp(h, "handle_new_task", "permission_denied", {}, <<>>)
            ELSE Resp(h, "handle_new_task", "category_menu", {}, <<>>))

HandleLogActivity(h, text, db, dbUpd) ==
    /\ RouteOf[text] = "handle_log_activity"
    /\ Menu(h, db, dbUpd,
            Resp(h, "handle_log_activity", "activity_menu", {}, <<>>))

HandleMyStats(h, text, db, dbUpd, dbQ, dbQ2) ==
    /\ RouteOf[text] = "handle_my_stats"
    /\ Menu(h, db, dbUpd,
            [Resp(h, "handle_my_stats", "stats",
                  get_user_stats(check_user_access(h, db).id, dbQ), <<>>)
             EXCEPT !.team_acts = get_global_stats(dbQ2)])

UploadListSize == 10

HandleUploadFile(h, text, db, dbUpd, dbQ) ==
    /\ RouteOf[text] = "handle_upload_file"
    /\ LET all == get_all_tasks("all", dbQ) IN
       Menu(h, db, dbUpd,
            IF all = <<>>
            THEN Resp(h, "handle_upload_file", "no_tasks", {}, <<>>)
            ELSE Resp(h, "handle_upload_file", "upload_list", {},
                      TaskIds(Take(all, UploadListSize))))

ScheduleActivities == 5

HandleSchedule(h, text, db, dbUpd, dbQ, dbQ2) ==
    /\ RouteOf[text] = "handle_schedule"
    /\ Menu(h, db, dbUpd,
            Resp(h, "handle_schedule", "schedule",
                 get_user_activities(check_user_access(h, db).id,
                                     ScheduleActivities, dbQ2),
                 TaskIds(get_all_tasks("all", dbQ))))

HandleSettings(h, text, db, dbUpd) ==
    /\ RouteOf[text] = "handle_settings"
    /\ Menu(h, db, dbUpd,
            Resp(h, "handle_settings", "settings", {}, <<>>))

\* a document, photo or video: the session is not consulted
HandleFileUpload(h, db, dbUpd) ==
    /\ h \in Handles
    /\ Menu(h, db, dbUpd,
            Resp(h, "handle_file_upload", "select_task_first", {}, <<>>))

\* a text no registered filter matches: no handler runs, nothing is sent
Unhandled(h, text) ==
    /\ RouteOf[text] = "none"
    /\ out' = Resp(h, "none", "none", {}, <<>>)
    /\ UNCHANGED <<users, active_sessions>>
    /\ Frame

----------------------------------------------------------------------------
(* BotHandlers.handle_callback and the handlers it dispatches to *)

TasksPerPage == 5

\* _handle_task_filter: the first page of the tasks with that status
handle_task_filter(h, data, dbQ) ==
    LET found == get_all_tasks(data[3], dbQ) IN
    IF found = <<>>
    THEN Resp(h, "_handle_task_filter", "no_tasks_found", {}, <<>>)
    ELSE Resp(h, "_handle_task_filter", "task_list", {},
              TaskIds(Take(found, TasksPerPage)))

\* str(n) of a page number
Numeral(n) == CASE n = 0 -> "0" [] n = 1 -> "1" [] n = 2 -> "2" [] OTHER -> "3"

\* ui.create_pagination_keyboard: the callback data of its row of buttons
create_pagination_keyboard(current_page, total_pages, callback_prefix) ==
    (IF current_page > 1
     THEN {callback_prefix \o <<"page", Numeral(current_page - 1)>>} ELSE {})
    \cup {<<"noop">>}
    \cup (IF current_page < total_pages
          THEN {callback_prefix \o <<"page", Numeral(current_page + 1)>>} ELSE {})

\* the callback data of the buttons _handle_task_filter puts under its list
task_filter_keyboard(filter_type, dbQ) ==
    LET found == get_all_tasks(filter_type, dbQ)
        page == 1
        total_pages == (Len(found) + TasksPerPage - 1) \div TasksPerPage
    IN  IF found = <<>> THEN {}
        ELSE {<<"tasks", "filter", filter_type>>, <<"tasks", "back">>}
             \cup (IF total_pages > 1
                   THEN create_pagination_keyboard(page, total_pages,
                                                   <<"tasks", filter_type>>)
                   ELSE {})

\* _handle_stats_action
handle_stats_action(h, user, data, dbQ, dbQ2) ==
    IF data[2] = "personal"
    THEN Resp(h, "_handle_stats_action", "stats_personal",
              get_user_stats(user.id, dbQ), <<>>)
    ELSE IF data[2] = "team"
    THEN [Resp(h, "_handle_stats_action", "stats_team", {}, <<>>)
          EXCEPT !.team_acts = get_global_stats(dbQ)]
    ELSE IF data[2] = "refresh"
    THEN [Resp(h, "_handle_stats_action", "stats",
               get_user_stats(user.id, dbQ), <<>>)
          EXCEPT !.team_acts = get_global_stats(dbQ2)]
    ELSE Resp(h, "_handle_stats_action", "coming_soon", {}, <<>>)

\* the session each flow stores when it starts
CreateTaskSession(category) ==
    [action |-> "create_task", category |-> category, step |-> "description"]

LogActivitySession(activity_type) ==
    [action |-> "log_activity", activity_type |-> activity_type,
     step |-> "description"]

UploadFileSession(task_id) ==
    [action |-> "upload_file", task_id |-> task_id, step |-> "waiting_file"]

\* the code _handle_upload_task_selection looks the task up by: "TASK-<id>"
UploadLookupCode(task_id) == <<"TASK", task_id>>

\* the branches of handle_callback behind the access check: the response
CallbackResp(h, user, data, dbQ, dbQ2) ==
    IF StartsWith(data, <<"tasks", "filter">>)
    THEN handle_task_filter(h, data, dbQ)
    ELSE IF StartsWith(data, <<"cat">>)
    THEN IF ~require_role(user, TaskCreators)
         THEN Resp(h, "_handle_category_selection", "permission_denied", {}, <<>>)
         ELSE Resp(h, "_handle_category_selection", "ask_description", {}, <<>>)
    ELSE IF StartsWith(data, <<"city">>)
    THEN Resp(h, "_handle_city_selection", "in_development", {}, <<>>)
    ELSE IF StartsWith(data, <<"company">>)
    THEN Resp(h, "_handle_company_selection", "in_development", {}, <<>>)
    ELSE IF StartsWith(data, <<"priority">>)
    THEN Resp(h, "_handle_priority_selection", "in_development", {}, <<>>)
    ELSE IF StartsWith(data, <<"act">>)
    THEN Resp(h, "_handle_activity_selection", "ask_activity_description", {}, <<>>)
    ELSE IF StartsWith(data, <<"upload", "task">>)
    THEN IF ~IsInt(data[3])
         THEN Resp(h, "handle_callback", "error", {}, <<>>)
         ELSE IF get_task_by_code(UploadLookupCode(ParseInt(data[3])), dbQ) = {}
         THEN Resp(h, "_handle_upload_task_selection", "task_not_found", {}, <<>>)
         ELSE Resp(h, "_handle_upload_task_selection", "ask_file", {}, <<>>)
    ELSE IF data = <<"upload", "search">>
    THEN Resp(h, "_handle_upload_search", "in_development", {}, <<>>)
    ELSE IF StartsWith(data, <<"stats">>)
    THEN handle_stats_action(h, user, data, dbQ, dbQ2)
    ELSE IF StartsWith(data, <<"schedule">>)
    THEN Resp(h, "_handle_schedule_action", "in_development", {}, <<>>)
    ELSE IF StartsWith(data, <<"settings">>)
    THEN Resp(h, "_handle_settings_action", "in_development", {}, <<>>)
    ELSE IF StartsWith(data, <<"help">>)
    THEN Resp(h, "_handle_help_action", "in_development", {}, <<>>)
    ELSE IF data = <<"noop">>
    THEN Resp(h, "handle_callback", "noop_ack", {}, <<>>)
    ELSE Resp(h, "handle_callback", "unknown_action", {}, <<>>)

\* a session map in which a flow in progress is never replaced (setdefault)
CallbackSessionsKept(user, data, dbQ) ==
    IF user.id \in DOMAIN active_sessions THEN active_sessions
    ELSE IF StartsWith(data, <<"cat">>) /\ require_role(user, TaskCreators)
    THEN SetSession(user.id, CreateTaskSession(data[2]))
    ELSE IF StartsWith(data, <<"act">>)
    THEN SetSession(user.id, LogActivitySession(data[2]))
    ELSE active_sessions

\* ... and the session map they leave
CallbackSessions(user, data, dbQ) ==
    IF StartsWith(data, <<"cat">>) /\ require_role(user, TaskCreators)
    THEN SetSession(user.id, CreateTaskSession(data[2]))
    ELSE IF StartsWith(data, <<"act">>)
    THEN SetSession(user.id, LogActivitySession(data[2]))
    ELSE IF /\ StartsWith(data, <<"upload", "task">>)
            /\ IsInt(data[3])
            /\ get_task_by_code(UploadLookupCode(ParseInt(data[3])), dbQ) /= {}
    THEN SetSession(user.id, UploadFileSession(ParseInt(data[3])))
    ELSE active_sessions

\* handle_callback: callback.from_user is h, the one who pressed the button;
\* callback.message is the message that carries the button, written by the bot
HandleCallback(h, data, db, dbUpd, dbQ, dbQ2) ==
    /\ IF data = <<"start", "registration">>
       THEN /\ out' = Resp(h, "cmd_register",
                           cmd_register_kind(BotHandle, db, dbUpd), {}, <<>>)
            /\ users' = cmd_register_table(BotHandle, db, dbUpd)
            /\ UNCHANGED active_sessions
       ELSE IF data = <<"learn", "more">>
       THEN /\ out' = Resp(h, "_show_learn_more", "learn_more", {}, <<>>)
            /\ UNCHANGED <<users, active_sessions>>
       ELSE LET user == check_user_access(h, db) IN
            IF user = NoUser
            THEN /\ out' = Denied(h, "handle_callback")
                 /\ UNCHANGED <<users, active_sessions>>
            ELSE /\ users' = check_user_access_table(h, db, dbUpd)
                 /\ out' = CallbackResp(h, user, data, dbQ, dbQ2)
                 /\ active_sessions' = CallbackSessions(user, data, dbQ)
    /\ Frame

----------------------------------------------------------------------------
(* What happens around the bot *)

\* the approval action: an administrator sets status and role of an account
AdminSetUser(uid, status, role) ==
    /\ uid \in UserIds
    /\ users[uid].telegram_id \in Handles
    /\ <<users[uid].status, users[uid].role>> /= <<status, role>>
    /\ users' = [users EXCEPT ![uid].status = status, ![uid].role = role]
    /\ UNCHANGED <<tasks, activity_logs, files, active_sessions, now, tz, plan, calls, out>>

Tick ==
    /\ now < MaxNow
    /\ now' = now + 1
    /\ UNCHANGED <<users, tasks, activity_logs, files, active_sessions, tz, plan, calls, out>>

\* activity_manager.log_activity(activity_data, user_id)
LogActivity(activity_type, user_id, db) ==
    /\ Len(activity_logs) < MaxActs
    /\ activity_logs' = log_activity_table(activity_type, user_id, db)
    /\ UNCHANGED <<users, tasks, files, active_sessions, now, tz, plan, calls, out>>

\* what fails in the storage while an event is handled, at most one of: the
\* lookup of the sender, the write (last login, registration), the queries of
\* the handler
StorageFaults == {"none", "lookup", "write", "query"}

\* the inbound events: commands and menu texts, media, button presses
Event(h, f) ==
    \/ \E text \in Texts : CmdStart(h, text, f /= "lookup", f /= "write")
    \/ \E text \in Texts : CmdRegister(h, text, f /= "lookup", f /= "write")
    \/ \E text \in Texts : CmdHelp(h, text)
    \/ \E text \in Texts : HandleMyTasks(h, text, f /= "lookup", f /= "write")
    \/ \E text \in Texts : HandleNewTask(h, text, f /= "lookup", f /= "write")
    \/ \E text \in Texts : HandleLogActivity(h, text, f /= "lookup", f /= "write")
    \/ \E text \in Texts : HandleMyStats(h, text, f /= "lookup", f /= "write",
                                         f /= "query", f /= "query")
    \/ \E text \in Texts : HandleUploadFile(h, text, f /= "lookup", f /= "write",
                                            f /= "query")
    \/ \E text \in Texts : HandleSchedule(h, text, f /= "lookup", f /= "write",
                                          f /= "query", f /= "query")
    \/ \E text \in Texts : HandleSettings(h, text, f /= "lookup", f /= "write")
    \/ HandleFileUpload(h, f /= "lookup", f /= "write")
    \/ \E text \in Texts : Unhandled(h, text)
    \/ \E data \in CallbackData :
          HandleCallback(h, data, f /= "lookup", f /= "write",
                         f /= "query", f /= "query")

Categories == {"installation", "repair"}
ActivityTypes == {"repair"}

(* The bot from an empty database: registration, the administrator's
   decisions on the accounts, and the events of one sender, h1 *)
Init ==
    /\ users = <<>>
    /\ tasks = <<>>
    /\ activity_logs = <<>>
    /\ files = <<>>
    /\ active_sessions = <<>>
    /\ now = 0
    /\ tz = 0
    /\ plan = "sorter"
    /\ calls = <<>>
    /\ out = NoResp

Next ==
    \/ \E f \in StorageFaults : Event("h1", f)
    \/ \E uid \in UserIds, status \in UserStatus, role \in UserRole \cup {NoRole} :
          AdminSetUser(uid, status, role)

Spec == Init /\ [][Next]_vars

(* The bot over a database that holds the accounts of h1 (technician) and h2
   (commercial), both approved: the events of both, and the calls that store
   tasks and activities *)
InitData ==
    /\ users = << [id |-> 1, telegram_id |-> "h1", status |-> "active",
                   role |-> "technician", last_login |-> 0],
                  [id |-> 2, telegram_id |-> "h2", status |-> "active",
                   role |-> "commercial", last_login |-> 0] >>
    /\ tasks = <<>>
    /\ activity_logs = <<>>
    /\ files = <<>>
    /\ active_sessions = <<>>
    /\ now = 0
    /\ tz = 0
    /\ plan = "sorter"
    /\ calls = <<>>
    /\ out = NoResp

NextData ==
    \/ \E h \in Handles, f \in StorageFaults : Event(h, f)
    \/ \E a \in ActivityTypes, uid \in UserIds, db \in BOOLEAN : LogActivity(a, uid, db)

SpecData == InitData /\ [][NextData]_vars

(* The same two accounts and their events alone: nothing is stored besides
   what the handlers store *)
NextFlow == \E h \in Handles, f \in StorageFaults : Event(h, f)

SpecFlow == InitData /\ [][NextFlow]_vars

(* The two accounts, the events of h1 and the clock *)
NextClock ==
    \/ \E f \in StorageFaults : Event("h1", f)
    \/ Tick

SpecClock == InitData /\ [][NextClock]_vars

\* SecurityConfig.session_timeout_hours, and the same in ticks
session_timeout_hours == 24
SessionTimeout == (session_timeout_hours * TicksPerDay) \div 24

(* The two accounts and the events of h1 over a table of stored tasks: up to
   MaxStored tasks of one category created one after the other, the first
   ones at tick 0 and the others at tick 1, on a database with either plan *)
MaxStored == 11

StoredTasks(n, k) ==
    [i \in 1..n |->
        [id |-> i, task_code |-> TaskCode(CategoryPrefix("installation"), 0, i),
         category |-> "installation", status |-> "to_do", priority |-> "normal",
         created_by |-> 1, created_at |-> IF i <= k THEN 0 ELSE 1]]

InitList ==
    /\ users = << [id |-> 1, telegram_id |-> "h1", status |-> "active",
                   role |-> "technician", last_login |-> 0],
                  [id |-> 2, telegram_id |-> "h2", status |-> "active",
                   role |-> "commercial", last_login |-> 0] >>
    /\ \E n \in 0..MaxStored : \E k \in 0..n : tasks = StoredTasks(n, k)
    /\ activity_logs = <<>>
    /\ files = <<>>
    /\ active_sessions = <<>>
    /\ now = 1
    /\ tz = 0
    /\ plan \in QueryPlans
    /\ calls = <<>>
    /\ out = NoResp

\* the menu texts and buttons that list tasks or choose one from a list
NextList ==
    \E f \in StorageFaults :
        \/ \E text \in Texts : HandleMyTasks("h1", text, f /= "lookup", f /= "write")
        \/ \E text \in Texts : HandleUploadFile("h1", text, f /= "lookup",
                                                 f /= "write", f /= "query")
        \/ \E text \in Texts : HandleSchedule("h1", text, f /= "lookup", f /= "write",
                                               f /= "query", f /= "query")
        \/ \E data \in {d \in CallbackData : d[1] \in {"tasks", "upload"}} :
              HandleCallback("h1", data, f /= "lookup", f /= "write",
                             f /= "query", f /= "query")

SpecList == InitList /\ [][NextList]_vars

----------------------------------------------------------------------------
(* TaskManager.create_task step by step, each call on a connection of its
   own (get_connection opens one per call, check_same_thread=False), made by
   workers that share the database file: the count query, the INSERT, the
   commit *)

IdleCall == [pc |-> "idle", category |-> "null", created_by |-> 0,
             task_code |-> <<>>, t_code |-> 0, t_insert |-> 0, result |-> <<>>]

Conns == 1..MaxCalls

\* a connection of another call holds the write lock of the database file
\* from its INSERT to its commit
LockHeldByOther(c) == \E d \in Conns \ {c} : calls[d].pc = "commit"

CallsFrame == UNCHANGED <<users, activity_logs, files, active_sessions, tz, plan, out>>

\* create_task(task_data, created_by): get_connection; None when it fails
CallCreateTask(c, category, created_by, db) ==
    /\ calls[c].pc = "idle"
    /\ created_by \in UserIds
    /\ Len(tasks) + Cardinality({d \in Conns : calls[d].pc \notin {"idle", "done"}})
          < MaxTasks
    /\ calls' = [calls EXCEPT ![c] =
                    [IdleCall EXCEPT !.pc = IF db THEN "generate" ELSE "done",
                                     !.category = category,
                                     !.created_by = created_by]]
    /\ UNCHANGED <<tasks, now>>
    /\ CallsFrame

\* _generate_task_code: SELECT COUNT(*) over the committed rows
GenerateTaskCode(c) ==
    /\ calls[c].pc = "generate"
    /\ calls' = [calls EXCEPT ![c].pc = "insert",
                              ![c].task_code =
                                  generate_task_code(tasks, calls[c].category, now),
                              ![c].t_code = now]
    /\ UNCHANGED <<tasks, now>>
    /\ CallsFrame

\* INSERT INTO tasks: takes the write lock; sqlite3.IntegrityError when the
\* code is stored already (create_task logs it and returns None)
InsertTask(c) ==
    /\ calls[c].pc = "insert"
    /\ ~LockHeldByOther(c)
    /\ calls' = [calls EXCEPT ![c].pc = IF CodeTaken(tasks, calls[c].task_code)
                                        THEN "done" ELSE "commit",
                              ![c].t_insert = now]
    /\ UNCHANGED <<tasks, now>>
    /\ CallsFrame

\* INSERT INTO tasks while another connection holds the write lock longer
\* than the timeout: "database is locked", create_task returns None
InsertBusy(c) ==
    /\ calls[c].pc = "insert"
    /\ LockHeldByOther(c)
    /\ calls' = [calls EXCEPT ![c].pc = "done"]
    /\ UNCHANGED <<tasks, now>>
    /\ CallsFrame

\* conn.commit(); return task_code
CommitTask(c) ==
    /\ calls[c].pc = "commit"
    /\ tasks' = Append(tasks, NewTaskRow(tasks, calls[c].task_code, calls[c].category,
                                         calls[c].created_by, calls[c].t_insert))
    /\ calls' = [calls EXCEPT ![c].pc = "done", ![c].result = calls[c].task_code]
    /\ UNCHANGED now
    /\ CallsFrame

(* Callers of create_task on MaxCalls connections, over the accounts of h1 and
   h2, with the clock running and either offset of the local clock *)
InitCreate ==
    /\ users = << [id |-> 1, telegram_id |-> "h1", status |-> "active",
                   role |-> "technician", last_login |-> 0],
                  [id |-> 2, telegram_id |-> "h2", status |-> "active",
                   role |-> "manager", last_login |-> 0] >>
    /\ tasks = <<>>
    /\ activity_logs = <<>>
    /\ files = <<>>
    /\ active_sessions = <<>>
    /\ now = 0
    /\ tz \in {0, 1}
    /\ plan = "sorter"
    /\ calls = [c \in Conns |-> IdleCall]
    /\ out = NoResp

NextCreate ==
    \/ \E c \in Conns, category \in Categories, db \in BOOLEAN :
          CallCreateTask(c, category, c, db)
    \/ \E c \in Conns : GenerateTaskCode(c)
    \/ \E c \in Conns : InsertTask(c)
    \/ \E c \in Conns : InsertBusy(c)
    \/ \E c \in Conns : CommitTask(c)
    \/ Tick

SpecCreate == InitCreate /\ [][NextCreate]_vars

(* One caller of create_task at a time, as one event loop runs the calls: a
   call starts when no other call is in flight *)
SeqCategories == {"installation", "INSTALLATION", "repair", "survey"}

CallCreateTaskAlone(c, category, created_by, db) ==
    /\ \A d \in Conns : calls[d].pc \in {"idle", "done"}
    /\ CallCreateTask(c, category, created_by, db)

NextSeq ==
    \/ \E c \in Conns, category \in SeqCategories, db \in BOOLEAN :
          CallCreateTaskAlone(c, category, 1, db)
    \/ \E c \in Conns : GenerateTaskCode(c)
    \/ \E c \in Conns : InsertTask(c)
    \/ \E c \in Conns : CommitTask(c)
    \/ Tick

SpecSeq == InitCreate /\ [][NextSeq]_vars

(* create_task, one call at a time, on a table that already holds the
   tasks of one category created one after the other at the start: as many
   as three digits can number *)
SequenceDigits == 3
StoredBefore == 10 ^ SequenceDigits - 1

\* the table after n sequential create_task calls of one category at tick t
TasksCreatedAt(n, category, created_by, t) ==
    [i \in 1..n |->
        [id |-> i, task_code |-> TaskCode(CategoryPrefix(category), LocalDate(t), i),
         category |-> category, status |-> "to_do", priority |-> "normal",
         created_by |-> created_by, created_at |-> t]]

\* create_task(task_data, created_by) when no other call is in flight
CallCreateTaskOnStored(c, category, created_by, db) ==
    /\ \A d \in Conns : calls[d].pc \in {"idle", "done"}
    /\ calls[c].pc = "idle"
    /\ created_by \in UserIds
    /\ calls' = [calls EXCEPT ![c] =
                    [IdleCall EXCEPT !.pc = IF db THEN "generate" ELSE "done",
                                     !.category = category,
                                     !.created_by = created_by]]
    /\ UNCHANGED <<tasks, now>>
    /\ CallsFrame

InitOverflow ==
    /\ users = << [id |-> 1, telegram_id |-> "h1", status |-> "active",
                   role |-> "technician", last_login |-> 0],
                  [id |-> 2, telegram_id |-> "h2", status |-> "active",
                   role |-> "manager", last_login |-> 0] >>
    /\ now \in {0, 1}
    /\ tz \in {0, 1}
    /\ plan = "sorter"
    /\ tasks = TasksCreatedAt(StoredBefore, "installation", 1, now)
    /\ activity_logs = <<>>
    /\ files = <<>>
    /\ active_sessions = <<>>
    /\ calls = [c \in Conns |-> IdleCall]
    /\ out = NoResp

NextOverflow ==
    \/ \E c \in Conns, category \in Categories, db \in BOOLEAN :
          CallCreateTaskOnStored(c, category, 1, db)
    \/ \E c \in Conns : GenerateTaskCode(c)
    \/ \E c \in Conns : InsertTask(c)
    \/ \E c \in Conns : CommitTask(c)
    \/ Tick

SpecOverflow == InitOverflow /\ [][NextOverflow]_vars

----------------------------------------------------------------------------
(* FileManager.save_file_record, called on a database in which tasks are
   created one call at a time *)
MaxFiles == 2

\* file_data.get('task_id') when file_data has no 'task_id': None, stored as NULL
NoTaskId == 0

\* INSERT INTO files: task_id REFERENCES tasks(id) and may be NULL,
\* uploaded_by REFERENCES users(id); PRAGMA foreign_keys = ON
save_file_record_ok(task_id, uploaded_by, db) ==
    /\ db
    /\ task_id = NoTaskId \/ \E i \in 1..Len(tasks) : tasks[i].id = task_id
    /\ uploaded_by \in UserIds

save_file_record_table(task_id, uploaded_by, db) ==
    IF save_file_record_ok(task_id, uploaded_by, db)
    THEN Append(files, [id |-> Len(files) + 1, task_id |-> task_id,
                        uploaded_by |-> uploaded_by])
    ELSE files

SaveFileRecord(task_id, uploaded_by, db) ==
    /\ Len(files) < MaxFiles
    /\ save_file_record_ok(task_id, uploaded_by, db)
    /\ files' = save_file_record_table(task_id, uploaded_by, db)
    /\ UNCHANGED <<users, tasks, activity_logs, active_sessions, now, tz, plan, calls, out>>

\* save_file_record returns False: the connection fails or a reference names
\* no row
SaveFileRecordRefused(task_id, uploaded_by, db) ==
    /\ ~save_file_record_ok(task_id, uploaded_by, db)
    /\ files' = save_file_record_table(task_id, uploaded_by, db)
    /\ out' = Resp("null", "save_file_record", "false", {}, <<>>)
    /\ UNCHANGED <<users, tasks, activity_logs, active_sessions, now, tz, plan, calls>>

NextFiles ==
    \/ \E c \in Conns, db \in BOOLEAN : CallCreateTaskAlone(c, "installation", 1, db)
    \/ \E c \in Conns : GenerateTaskCode(c)
    \/ \E c \in Conns : InsertTask(c)
    \/ \E c \in Conns : CommitTask(c)
    \/ \E task_id \in 0..(MaxTasks + 1), uploaded_by \in 1..3, db \in BOOLEAN :
          SaveFileRecord(task_id, uploaded_by, db)
    \/ \E task_id \in 0..(MaxTasks + 1), uploaded_by \in 1..3, db \in BOOLEAN :
          SaveFileRecordRefused(task_id, uploaded_by, db)

SpecFiles == InitCreate /\ [][NextFiles]_vars

----------------------------------------------------------------------------
(* BotHandlers.cmd_register step by step, for workers that share the database
   file: the lookup of the sender, then register_user and the reply *)

IdleRegistration == [pc |-> "idle", from |-> "null", reply |-> "none"]

\* existing_user = get_user_by_telegram_id(telegram_id), and the reply when
\* there is one
RegisterLookup(c, h) ==
    /\ calls[c].pc = "idle"
    /\ LET existing_user == get_user_by_telegram_id(h, TRUE) IN
       calls' = [calls EXCEPT ![c] =
                    IF existing_user /= NoUser
                    THEN [pc |-> "done", from |-> h,
                          reply |-> cmd_register_kind(h, TRUE, TRUE)]
                    ELSE [pc |-> "register", from |-> h, reply |-> "none"]]
    /\ UNCHANGED <<users, tasks, activity_logs, files, active_sessions, now, tz, plan, out>>

\* success = register_user(...), and the reply
RegisterInsert(c) ==
    /\ calls[c].pc = "register"
    /\ users' = register_user_table(calls[c].from, TRUE)
    /\ calls' = [calls EXCEPT ![c].pc = "done",
                              ![c].reply = IF register_user_ok(calls[c].from, TRUE)
                                           THEN "registration_pending"
                                           ELSE "registration_failed"]
    /\ UNCHANGED <<tasks, activity_logs, files, active_sessions, now, tz, plan, out>>

AdminDecides(uid, status, role) ==
    /\ AdminSetUser(uid, status, role)
    /\ status /= "pending"

InitRegister ==
    /\ users = <<>>
    /\ tasks = <<>>
    /\ activity_logs = <<>>
    /\ files = <<>>
    /\ active_sessions = <<>>
    /\ now = 0
    /\ tz = 0
    /\ plan = "sorter"
    /\ calls = [c \in Conns |-> IdleRegistration]
    /\ out = NoResp

NextRegister ==
    \/ \E c \in Conns, h \in Handles : RegisterLookup(c, h)
    \/ \E c \in Conns : RegisterInsert(c)
    \/ \E uid \in UserIds, status \in UserStatus, role \in {"manager", "other"} :
          AdminDecides(uid, status, role)

SpecRegister == InitRegister /\ [][NextRegister]_vars

----------------------------------------------------------------------------
(* UserManager.register_user statement by statement, for workers that share
   the database file: the SELECT of the handle, then the INSERT, which the
   UNIQUE constraint of users.telegram_id decides *)

IdleRegisterUser == [pc |-> "idle", telegram_id |-> "null", result |-> FALSE]

\* a table without UNIQUE(telegram_id)
TelegramIdTakenNever(rows, tid) == FALSE

\* telegram_id TEXT UNIQUE NOT NULL: the INSERT of a stored handle raises
TelegramIdTaken(rows, tid) ==
    \E i \in 1..Len(rows) : rows[i].telegram_id = tid

\* get_connection, SELECT id FROM users WHERE telegram_id = ?; False when
\* there is no connection or a row comes back
RegisterUserSelect(c, tid, db) ==
    /\ calls[c].pc = "idle"
    /\ calls' = [calls EXCEPT ![c] =
                    IF db /\ get_user_by_telegram_id(tid, TRUE) = NoUser
                    THEN [pc |-> "insert", telegram_id |-> tid, result |-> FALSE]
                    ELSE [pc |-> "done", telegram_id |-> tid, result |-> FALSE]]
    /\ UNCHANGED <<users, tasks, activity_logs, files, active_sessions, now, tz, plan, out>>

\* INSERT INTO users (...) with status pending, commit, return True; the
\* exception of a refused INSERT returns False
RegisterUserInsert(c) ==
    /\ calls[c].pc = "insert"
    /\ LET taken == TelegramIdTaken(users, calls[c].telegram_id) IN
          /\ users' = IF taken THEN users
                      ELSE Append(users, [id |-> Len(users) + 1,
                                          telegram_id |-> calls[c].telegram_id,
                                          status |-> "pending", role |-> NoRole,
                                          last_login |-> NoTime])
          /\ calls' = [calls EXCEPT ![c].pc = "done", ![c].result = ~taken]
    /\ UNCHANGED <<tasks, activity_logs, files, active_sessions, now, tz, plan, out>>

\* the worker takes its next update
RegisterUserReturn(c) ==
    /\ calls[c].pc = "done"
    /\ calls' = [calls EXCEPT ![c] = IdleRegisterUser]
    /\ UNCHANGED <<users, tasks, activity_logs, files, active_sessions, now, tz, plan, out>>

InitRegisterUser ==
    /\ users = <<>>
    /\ tasks = <<>>
    /\ activity_logs = <<>>
    /\ files = <<>>
    /\ active_sessions = <<>>
    /\ now = 0
    /\ tz = 0
    /\ plan = "sorter"
    /\ calls = [c \in Conns |-> IdleRegisterUser]
    /\ out = NoResp

NextRegisterUser ==
    \/ \E c \in Conns, tid \in Handles, db \in BOOLEAN : RegisterUserSelect(c, tid, db)
    \/ \E c \in Conns : RegisterUserInsert(c)
    \/ \E c \in Conns : RegisterUserReturn(c)
    \/ \E uid \in UserIds, status \in UserStatus, role \in {"manager", "other"} :
          AdminDecides(uid, status, role)

SpecRegisterUser == InitRegisterUser /\ [][NextRegisterUser]_vars

----------------------------------------------------------------------------
(* The handlers as the event loop runs them: one task per update, started in
   the order the updates arrive, each running until it awaits a call to
   Telegram (message.answer, callback.message.edit_text, callback.answer,
   callback.message.delete).  The methods of models.py contain no await, so
   an awaited storage call or access check runs to its end without giving
   the loop to another task. *)

IdleHandler == [pc |-> "idle", from |-> "null", data |-> <<>>, arrival |-> 0,
                user |-> NoUser, resp |-> NoResp]

\* the updates of this part: the /start command and button presses
LoopUpdates ==
    { <<"/start">>, <<"start", "registration">>, <<"cat", "installation">>,
      <<"act", "repair">>, <<"upload", "task", "1">>, <<"stats", "personal">> }

Arrived == {c \in Conns : calls[c].pc /= "idle"}

\* dp.start_polling: the dispatcher creates the task of an update
Deliver(c, h, data) ==
    /\ calls[c].pc = "idle"
    /\ calls' = [calls EXCEPT ![c] =
                    [IdleHandler EXCEPT !.pc = "created", !.from = h, !.data = data,
                                        !.arrival = Cardinality(Arrived) + 1]]
    /\ UNCHANGED <<users, tasks, activity_logs, files, active_sessions, now, tz, plan, out>>

\* a loop that starts its tasks in any order
MayStartAny(c) == TRUE

\* the loop starts the tasks in the order they were created
MayStart(c) ==
    \A d \in Conns : calls[d].pc = "created" => calls[d].arrival >= calls[c].arrival

\* cmd_start up to its message.answer: the lookup of the sender
RunStart(c) ==
    /\ calls[c].pc = "created" /\ MayStart(c)
    /\ calls[c].data = <<"/start">>
    /\ calls' = [calls EXCEPT ![c].pc = "answer",
                              ![c].user = get_user_by_telegram_id(calls[c].from, TRUE)]
    /\ UNCHANGED <<users, tasks, activity_logs, files, active_sessions, now, tz, plan, out>>

\* cmd_start after its message.answer: update_last_login of an active user
StartAnswered(c) ==
    /\ calls[c].pc = "answer"
    /\ LET user == calls[c].user IN
       IF user /= NoUser /\ user.status = "active"
       THEN /\ users' = update_last_login(user.id, TRUE)
            /\ out' = Resp(calls[c].from, "cmd_start", "welcome_back", {}, <<>>)
       ELSE /\ users' = users
            /\ out' = Resp(calls[c].from, "cmd_start",
                           IF user /= NoUser /\ user.status = "pending"
                           THEN "registration_pending" ELSE "welcome_new", {}, <<>>)
    /\ calls' = [calls EXCEPT ![c].pc = "done"]
    /\ UNCHANGED <<tasks, activity_logs, files, active_sessions, now, tz, plan>>

\* handle_callback of start_registration up to callback.message.delete()
RunRegistration(c) ==
    /\ calls[c].pc = "created" /\ MayStart(c)
    /\ calls[c].data = <<"start", "registration">>
    /\ calls' = [calls EXCEPT ![c].pc = "delete"]
    /\ UNCHANGED <<users, tasks, activity_logs, files, active_sessions, now, tz, plan, out>>

\* ... and after it: cmd_register(callback.message), up to its answer
RegistrationDeleted(c) ==
    /\ calls[c].pc = "delete"
    /\ users' = cmd_register_table(BotHandle, TRUE, TRUE)
    /\ out' = Resp(calls[c].from, "cmd_register",
                   cmd_register_kind(BotHandle, TRUE, TRUE), {}, <<>>)
    /\ calls' = [calls EXCEPT ![c].pc = "done"]
    /\ UNCHANGED <<tasks, activity_logs, files, active_sessions, now, tz, plan>>

\* handle_callback of any other button up to its first call to Telegram:
\* _check_user_access, the branch of the button and the session it stores
RunCallback(c) ==
    /\ calls[c].pc = "created" /\ MayStart(c)
    /\ calls[c].data \notin {<<"/start">>, <<"start", "registration">>}
    /\ LET h == calls[c].from
           data == calls[c].data
           user == check_user_access(h, TRUE)
       IN  IF user = NoUser
           THEN /\ calls' = [calls EXCEPT ![c].pc = "send",
                                          ![c].resp = Denied(h, "handle_callback")]
                /\ UNCHANGED <<users, active_sessions>>
           ELSE /\ users' = check_user_access_table(h, TRUE, TRUE)
                /\ active_sessions' = CallbackSessions(user, data, TRUE)
                /\ calls' = [calls EXCEPT ![c].pc = "send", ![c].user = user,
                                          ![c].resp = CallbackResp(h, user, data,
                                                                   TRUE, TRUE)]
    /\ UNCHANGED <<tasks, activity_logs, files, now, tz, plan, out>>

\* ... and after it: the message is out, callback.answer() and return
CallbackSent(c) ==
    /\ calls[c].pc = "send"
    /\ out' = calls[c].resp
    /\ calls' = [calls EXCEPT ![c].pc = "done"]
    /\ UNCHANGED <<users, tasks, activity_logs, files, active_sessions, now, tz, plan>>

InitLoop ==
    /\ users = << [id |-> 1, telegram_id |-> "h1", status |-> "active",
                   role |-> "technician", last_login |-> 0],
                  [id |-> 2, telegram_id |-> "h2", status |-> "active",
                   role |-> "commercial", last_login |-> 0] >>
    /\ tasks = <<>>
    /\ activity_logs = <<>>
    /\ files = <<>>
    /\ active_sessions = <<>>
    /\ now = 0
    /\ tz = 0
    /\ plan = "sorter"
    /\ calls = [c \in Conns |-> IdleHandler]
    /\ out = NoResp

NextLoop ==
    \/ \E c \in Conns, h \in Handles, data \in LoopUpdates : Deliver(c, h, data)
    \/ \E c \in Conns : RunStart(c)
    \/ \E c \in Conns : StartAnswered(c)
    \/ \E c \in Conns : RunRegistration(c)
    \/ \E c \in Conns : RegistrationDeleted(c)
    \/ \E c \in Conns : RunCallback(c)
    \/ \E c \in Conns : CallbackSent(c)

SpecLoop == InitLoop /\ [][NextLoop]_vars

----------------------------------------------------------------------------
(* Properties *)

UserOf(h) == get_user_by_telegram_id(h, TRUE)
IsActive(h) == UserOf(h).status = "active"
HasSession(h) == UserOf(h).id \in DOMAIN active_sessions
SessionOf(h) == active_sessions[UserOf(h).id]

\* the events that match an entry of the catalog other than the registration,
\* start and help entries: the menu texts, a media upload, every button press
\* but start_registration and learn_more
GatedEvent(h, f) ==
    \/ \E text \in Texts : HandleMyTasks(h, text, f /= "lookup", f /= "write")
    \/ \E text \in Texts : HandleNewTask(h, text, f /= "lookup", f /= "write")
    \/ \E text \in Texts : HandleLogActivity(h, text, f /= "lookup", f /= "write")
    \/ \E text \in Texts : HandleMyStats(h, text, f /= "lookup", f /= "write",
                                         f /= "query", f /= "query")
    \/ \E text \in Texts : HandleUploadFile(h, text, f /= "lookup", f /= "write",
                                            f /= "query")
    \/ \E text \in Texts : HandleSchedule(h, text, f /= "lookup", f /= "write",
                                          f /= "query", f /= "query")
    \/ \E text \in Texts : HandleSettings(h, text, f /= "lookup", f /= "write")
    \/ HandleFileUpload(h, f /= "lookup", f /= "write")
    \/ \E data \in CallbackData \ {<<"start", "registration">>, <<"learn", "more">>} :
          HandleCallback(h, data, f /= "lookup", f /= "write",
                         f /= "query", f /= "query")

DistinctCodesInFlight ==
    \A c, d \in DOMAIN calls :
        (/\ c /= d
         /\ calls[c].pc \in {"insert", "commit"}
         /\ calls[d].pc \in {"insert", "commit"}
         /\ calls[c].category = calls[d].category)
        => calls[c].task_code /= calls[d].task_code

\* C3: when two create_task calls of the same category, which generated
\* their codes at the same time and both got a connection, have returned,
\* both have returned a code and both rows are stored.
BothCreationsSucceed ==
    \A c, d \in DOMAIN calls :
        (/\ c /= d
         /\ calls[c].pc = "done" /\ calls[d].pc = "done"
         /\ calls[c].task_code /= <<>> /\ calls[d].task_code /= <<>>
         /\ calls[c].category = calls[d].category
         /\ calls[c].t_code = calls[d].t_code)
        => /\ calls[c].result /= <<>> /\ calls[d].result /= <<>>
           /\ CodeTaken(tasks, calls[c].result)
           /\ CodeTaken(tasks, calls[d].result)

InitialSession(data) ==
    IF data[1] = "cat"
    THEN [action |-> "create_task", category |-> data[2], step |-> "description"]
    ELSE IF data[1] = "act"
    THEN [action |-> "log_activity", activity_type |-> data[2], step |-> "description"]
    ELSE [action |-> "upload_file", task_id |-> ParseInt(data[3]),
          step |-> "waiting_file"]

FlowStarted(resp) ==
    resp.kind \in {"ask_description", "ask_activity_description", "ask_file"}

\* C5: sessions are kept one per account (user id), and when a button press
\* that starts a flow is accepted, the session of the account is exactly the
\* initial record of the new flow, whatever session it had before; the
\* sessions of the other accounts stay as they were.
SessionReplaced ==
    [][/\ DOMAIN active_sessions' \subseteq 1..Len(users')
       /\ FlowStarted(out') =>
          \A h \in Handles, f \in StorageFaults, data \in CallbackData :
            HandleCallback(h, data, f /= "lookup", f /= "write",
                           f /= "query", f /= "query")
            => /\ UserOf(h).id \in DOMAIN active_sessions'
               /\ active_sessions'[UserOf(h).id] = InitialSession(data)
               /\ \A k \in DOMAIN active_sessions' \ {UserOf(h).id} :
                     /\ k \in DOMAIN active_sessions
                     /\ active_sessions'[k] = active_sessions[k]]_vars

\* h1 has just started the log-activity flow and h2 has a session too
SessionReplacedWitness ==
    /\ out.to = "h1" /\ out.kind = "ask_activity_description"
    /\ HasSession("h1")
    /\ SessionOf("h1") = [action |-> "log_activity", activity_type |-> "repair",
                          step |-> "description"]
    /\ HasSession("h2")

\* C6: when an active account is in the create-task flow at the description
\* step and sends a description (free text), the flow completes: a task is
\* stored and the account has no session any more.
FlowCompletes ==
    [][\A h \in Handles :
          (/\ IsActive(h) /\ HasSession(h)
           /\ SessionOf(h).action = "create_task"
           /\ SessionOf(h).step = "description"
           /\ Unhandled(h, {}))
          => /\ Len(tasks') = Len(tasks) + 1
             /\ ~HasSession(h)']_vars

SessionBeforeCatalog ==
    [][\A h \in Handles :
          (IsActive(h) /\ HasSession(h)) =>
             \A text \in Texts, f \in StorageFaults :
                HandleMyStats(h, text, f /= "lookup", f /= "write",
                              f /= "query", f /= "query")
                => out'.handler /= "handle_my_stats"]_vars

\* C9: for an active account whose role is not manager or technician, the
\* "New Task" menu event and a category button are answered with permission
\* denied (with access denied when the lookup of the account fails), and
\* sessions and tasks stay as they were; a create-task session appears only
\* for an account whose role is manager or technician.
RoleGate ==
    [][/\ \A h \in Handles :
            (IsActive(h) /\ UserOf(h).role \notin {"manager", "technician"}) =>
          \A f \in StorageFaults :
            (\/ \E text \in Texts :
                   HandleNewTask(h, text, f /= "lookup", f /= "write")
             \/ \E data \in {d \in CallbackData : d[1] = "cat"} :
                   HandleCallback(h, data, f /= "lookup", f /= "write",
                                  f /= "query", f /= "query"))
            => /\ out'.to = h
               /\ out'.kind = IF f = "lookup" THEN "access_denied"
                              ELSE "permission_denied"
               /\ active_sessions' = active_sessions
               /\ tasks' = tasks
       /\ \A k \in DOMAIN active_sessions' :
            (/\ active_sessions'[k].action = "create_task"
             /\ \/ k \notin DOMAIN active_sessions
                \/ active_sessions[k] /= active_sessions'[k])
            => users[k].role \in {"manager", "technician"}]_vars

\* an active account with no role has been refused a category selection
RoleGateWitness ==
    /\ IsActive("h1") /\ UserOf("h1").role = NoRole
    /\ out.to = "h1" /\ out.kind = "permission_denied"
    /\ out.handler = "_handle_category_selection"

\* C10: every inbound event is answered.
EveryEventAnswered == out.to /= "null" => out.kind /= "none"

\* C11: no two stored tasks have the same code, and no step changes or
\* removes the code of a stored task.
CodesUniqueAndKept ==
    [][/\ \A i, j \in 1..Len(tasks') :
             i /= j => tasks'[i].task_code /= tasks'[j].task_code
       /\ \A i \in 1..Len(tasks) :
             /\ i <= Len(tasks')
             /\ tasks'[i].id = tasks[i].id
             /\ tasks'[i].task_code = tasks[i].task_code]_vars

\* a task is stored and the INSERT of a call that held the same code has
\* been refused
CodesUniqueAndKeptWitness ==
    /\ Len(tasks) >= 1
    /\ \E c \in DOMAIN calls :
          /\ calls[c].pc = "done"
          /\ calls[c].task_code /= <<>>
          /\ calls[c].result = <<>>
          /\ CodeTaken(tasks, calls[c].task_code)

\* C12: with one creation at a time, the code a call computes is made of
\* the prefix of its category, the date of the call and, as its sequence,
\* one more than the number of stored tasks with that prefix and that date:
\* 001 for the first, the previous plus one for each later one.
NextCodeCounter ==
    \A c \in DOMAIN calls :
        calls[c].pc = "insert" =>
            LET code == calls[c].task_code
                same == {i \in 1..Len(tasks) :
                            /\ tasks[i].task_code[1] = code[1]
                            /\ tasks[i].task_code[2] = code[2]}
            IN  /\ code[1] = CategoryPrefix(calls[c].category)
                /\ code[2] = LocalDate(calls[c].t_code)
                /\ code[3] = Pad3(Cardinality(same) + 1)

\* C13: a registration of a handle with no account (storage available) adds
\* exactly one account with that handle, status pending and no role, and is
\* answered as a success; a registration of a handle that has an account
\* changes nothing in the accounts table and is not answered as a success.
RegisterContract ==
    [][\A text \in {t \in Texts : RouteOf[t] = "cmd_register"},
         f \in StorageFaults :
          CmdRegister("h1", text, f /= "lookup", f /= "write") =>
             IF \E i \in UserIds : users[i].telegram_id = "h1"
             THEN /\ users' = users
                  /\ out'.kind /= "registration_pending"
             ELSE IF f /= "write"
             THEN /\ users' = Append(users, [id |-> Len(users) + 1,
                                             telegram_id |-> "h1",
                                             status |-> "pending",
                                             role |-> "null",
                                             last_login |-> -1])
                  /\ out'.kind = "registration_pending"
             ELSE /\ users' = users
                  /\ out'.kind = "registration_failed"]_vars

\* register_user has refused the handle of an account that is active and
\* has a role
RegisterContractWitness ==
    /\ out.to = "h1" /\ out.kind = "registration_failed"
    /\ UserOf("h1").status = "active"
    /\ UserOf("h1").role = "technician"
    /\ Cardinality({i \in UserIds : users[i].telegram_id = "h1"}) = 1

\* C14: when two registrations of one handle have been answered, whatever
\* the order of their lookups and inserts, there is exactly one account of
\* the handle and neither answer is the generic failure: each states the
\* registration or the status of the account.
DuplicateRegistrationReportsStatus ==
    \A c, d \in DOMAIN calls :
        (/\ c /= d
         /\ calls[c].pc = "done" /\ calls[d].pc = "done"
         /\ "from" \in DOMAIN calls[c] /\ "from" \in DOMAIN calls[d]
         /\ calls[c].from = calls[d].from)
        => /\ Cardinality({i \in UserIds :
                              users[i].telegram_id = calls[c].from}) = 1
           /\ calls[c].reply /= "registration_failed"
           /\ calls[d].reply /= "registration_failed"

\* C15: an event that is answered with access denied (its sender has no
\* account, or one that is pending or rejected, or cannot be looked up)
\* changes no account, last login included, no task, no activity, no file
\* and no session.
DeniedNoEffect ==
    [][(out'.to = "h1" /\ out'.kind = "access_denied") =>
          \/ UNCHANGED <<users, tasks, activity_logs, files, active_sessions>>
          \/ \A f \in StorageFaults : ~Event("h1", f)]_vars

\* a pending account that has never logged in has been denied a menu entry
DeniedNoEffectWitness ==
    /\ UserOf("h1").status = "pending"
    /\ UserOf("h1").last_login = NoTime
    /\ out.to = "h1" /\ out.kind = "access_denied"
    /\ out.handler = "_require_auth"

\* C16: an event of a sender leaves the sessions of all other accounts as
\* they are: none is created, changed or removed.
SessionIsolation ==
    [][\A h \in Handles :
          \/ \A k \in (DOMAIN active_sessions \cup DOMAIN active_sessions')
                        \ {UserOf(h).id} :
                /\ k \in DOMAIN active_sessions
                /\ k \in DOMAIN active_sessions'
                /\ active_sessions'[k] = active_sessions[k]
          \/ \A f \in StorageFaults : ~Event(h, f)]_vars

\* h1 has just started a flow while h2 is in another one
SessionIsolationWitness ==
    /\ out.to = "h1" /\ out.kind = "ask_description"
    /\ HasSession("h1") /\ SessionOf("h1").action = "create_task"
    /\ HasSession("h2") /\ SessionOf("h2").action = "log_activity"

\* C17: when an active account with a session presses the cancel button
\* (storage available), its session is removed and no task, activity or file
\* is created.
CancelRemovesSession ==
    [][\A h \in Handles :
          (/\ IsActive(h) /\ HasSession(h)
           /\ HandleCallback(h, <<"cancel">>, TRUE, TRUE, TRUE, TRUE))
          => /\ ~HasSession(h)'
             /\ UNCHANGED <<tasks, activity_logs, files>>]_vars

\* C18: no session outlives the session timeout: an account whose last
\* accepted event (the stamp of its last login) is a session timeout old has
\* no session.
SessionsExpire ==
    \A k \in DOMAIN active_sessions :
        now - users[k].last_login < SessionTimeout

\* the final step of the create-task flow: the description, a text message
\* of an active account whose session waits for it
FinalStep(h) ==
    /\ IsActive(h) /\ HasSession(h)
    /\ SessionOf(h).action = "create_task"
    /\ SessionOf(h).step = "description"
    /\ Unhandled(h, {})

ReplayCreatesOnce ==
    \A h \in Handles :
        (IsActive(h) /\ out.to = h /\ out.handler = "none") =>
            ~(/\ HasSession(h)
              /\ SessionOf(h).action = "create_task"
              /\ SessionOf(h).step = "description")


\* the handlers of an account that have started, and those among them whose
\* event starts a flow the account may start
StartedOf(h) ==
    {c \in DOMAIN calls : calls[c].from = h /\ calls[c].pc \notin {"idle", "created"}}

FlowStartersOf(h) ==
    {c \in StartedOf(h) :
        \/ calls[c].data[1] = "act"
        \/ calls[c].data[1] = "cat" /\ UserOf(h).role \in {"manager", "technician"}}

\* C21: at every point of every interleaving of the handlers, the session of
\* an account is the one that handling its events one after the other, in
\* the order of their arrival, leaves: the initial record of the flow of the
\* last arrived flow-starting event whose handler has started, none when
\* there is no such event; and once all handlers have returned, the records
\* are those of the serial handling: the two accounts with status and role as
\* they were, one pending account for the author of the message a
\* start_registration button was on when one was pressed, nothing else.
PerAccountSerialization ==
    /\ \A h \in Handles :
          IF FlowStartersOf(h) = {}
          THEN ~HasSession(h)
          ELSE LET last == CHOOSE c \in FlowStartersOf(h) :
                              \A d \in FlowStartersOf(h) :
                                  calls[d].arrival <= calls[c].arrival
               IN  HasSession(h) /\ SessionOf(h) = InitialSession(calls[last].data)
    /\ (\A c \in DOMAIN calls : calls[c].pc \in {"idle", "done"}) =>
          /\ \A h \in Handles : /\ UserOf(h).status = "active"
                                /\ UserOf(h).role = IF h = "h1" THEN "technician"
                                                    ELSE "commercial"
          /\ Len(users) = IF \E c \in DOMAIN calls :
                                 calls[c].data = <<"start", "registration">>
                          THEN 3 ELSE 2
          /\ Len(users) = 3 => /\ users[3].telegram_id = "bot"
                               /\ users[3].status = "pending"
          /\ tasks = <<>> /\ activity_logs = <<>> /\ files = <<>>

\* two handlers of h1 are in flight at once, both waiting for Telegram: the
\* category press arrived first, the activity press second
PerAccountSerializationWitness ==
    \E c, d \in DOMAIN calls :
        /\ calls[c].from = "h1" /\ calls[d].from = "h1"
        /\ calls[c].pc = "send" /\ calls[d].pc = "send"
        /\ calls[c].data = <<"cat", "installation">>
        /\ calls[d].data = <<"act", "repair">>
        /\ calls[c].arrival < calls[d].arrival
        /\ SessionOf("h1").action = "log_activity"

\* what a sender with no account is answered by each handler outside the
\* registration
AnswerWithoutAccount(handler) ==
    CASE handler = "cmd_start" -> "welcome_new"
      [] handler = "cmd_help" -> "help"
      [] handler = "_show_learn_more" -> "learn_more"
      [] handler = "none" -> "none"
      [] OTHER -> "access_denied"

\* C22: an event outside the registration (the /start command, a menu text,
\* a button press) sent by someone whose account is pending or rejected is
\* answered as the same event of a sender with no account is, and changes
\* no account and no session.
NonActiveIndistinguishable ==
    [][(/\ out'.to = "h1"
        /\ out'.handler /= "cmd_register"
        /\ UserOf("h1") /= NoUser
        /\ ~IsActive("h1")) =>
          \/ /\ out'.kind = AnswerWithoutAccount(out'.handler)
             /\ UNCHANGED <<users, active_sessions>>
          \/ \A f \in StorageFaults : ~Event("h1", f)]_vars

\* C23: every activity_logs row that a value in the answer to an account is
\* computed from, the rows behind the team counters included, is a row of
\* that account: the answer is the same whatever the other accounts have
\* logged.
ActivityNonInterference ==
    \A i \in out.acts \cup out.team_acts :
        /\ i \in 1..Len(activity_logs)
        /\ activity_logs[i].user_id = UserOf(out.to).id

\* C24: when the lookup of the sender fails in the storage while an event of
\* an active account is authorized, the answer is not access denied (the
\* sender is told to retry) and the sessions stay as they were.
StorageFailureNotDenial ==
    [][\A h \in Handles :
          (IsActive(h) /\ GatedEvent(h, "lookup"))
          => /\ out'.to = h
             /\ out'.kind /= "access_denied"
             /\ active_sessions' = active_sessions]_vars

\* C25: for an active account whose lookup succeeds, the event is let in and
\* handled whether the update of the last login succeeds or fails; when it
\* succeeds, the last login of the account is the current time and nothing
\* else in the accounts table changes; when it fails, the table is as it was.
AuthorizeBestEffort ==
    [][IsActive("h1") =>
          \A f \in StorageFaults \ {"lookup"} :
             \/ /\ out'.to = "h1"
                /\ out'.kind /= "access_denied"
                /\ out'.handler /= "_require_auth"
                /\ users' = IF f = "write" THEN users
                            ELSE [users EXCEPT ![UserOf("h1").id].last_login = now]
             \/ ~GatedEvent("h1", f)]_vars

\* h1 has been let in and stamped at a time after the start, h2 keeps the
\* stamp it had
AuthorizeBestEffortWitness ==
    /\ now > 0
    /\ UserOf("h1").last_login = now
    /\ UserOf("h2").last_login = 0
    /\ out.to = "h1" /\ out.handler = "handle_my_tasks" /\ out.kind = "task_filters"

\* C26: when a call computes its code while 999 or more tasks with the
\* prefix and the date of that code are stored, the sequence of the code is
\* one more than their number, written with four digits (1000, 1001, ...),
\* and the code is not one that is stored already.
SequenceWidens ==
    \A c \in DOMAIN calls :
        calls[c].pc = "insert" =>
            LET code == calls[c].task_code
                same == {i \in 1..Len(tasks) :
                            /\ tasks[i].task_code[1] = code[1]
                            /\ tasks[i].task_code[2] = code[2]}
            IN  Cardinality(same) >= 999 =>
                   /\ code[3] = Digits(Cardinality(same) + 1)
                   /\ Len(code[3]) = 4
                   /\ ~CodeTaken(tasks, code)

\* C27: a step that is not the administrator's decision keeps every account
\* with its id, handle, status and role (only the last login may change),
\* and the accounts it adds are pending and have no role; and an event of a
\* sender whose account is not active, sent to a gated handler, is answered
\* with access denied.
AccountFrame ==
    [][\/ /\ Len(users') >= Len(users)
          /\ \A i \in 1..Len(users) :
                /\ users'[i].id = users[i].id
                /\ users'[i].telegram_id = users[i].telegram_id
                /\ users'[i].status = users[i].status
                /\ users'[i].role = users[i].role
          /\ \A i \in (Len(users) + 1)..Len(users') :
                /\ users'[i].status = "pending"
                /\ users'[i].role = NoRole
          /\ (/\ ~IsActive("h1")
              /\ out' /= out
              /\ out'.handler \notin {"cmd_start", "cmd_register", "cmd_help",
                                      "_show_learn_more", "none"})
             => out'.kind = "access_denied"
       \/ \E uid \in UserIds, status \in UserStatus, role \in UserRole \cup {NoRole} :
             AdminSetUser(uid, status, role)]_vars

\* the account of h1 has been approved and stamped by an event of h1, and
\* the account a start_registration press created is still pending
AccountFrameWitness ==
    /\ IsActive("h1") /\ UserOf("h1").last_login = now
    /\ UserOf(BotHandle).status = "pending"
    /\ UserOf(BotHandle).last_login = NoTime

\* C28: every stored file record refers to a stored task: its task_id is
\* the id of a row of the tasks table.
AttachmentHasTask ==
    \A i \in 1..Len(files) :
        \E j \in 1..Len(tasks) : tasks[j].id = files[i].task_id

\* the ids of the stored tasks, the most recently created first
RecentFirst == [i \in 1..Len(tasks) |-> tasks[Len(tasks) + 1 - i].id]

\* C29: a task list shows at most 5 tasks and an upload list at most 10, and
\* the tasks shown are the most recently created ones, the most recent
\* first, whatever the plan of the query and also among tasks of one
\* creation timestamp.
ListingsRecentFirst ==
    /\ out.kind = "task_list" =>
          /\ Len(out.listed) <= 5
          /\ out.listed = Take(RecentFirst, 5)
    /\ out.kind = "upload_list" =>
          /\ Len(out.listed) <= 10
          /\ out.listed = Take(RecentFirst, 10)

\* C30: an account that an event creates, the press of the
\* start_registration button included, is a pending account of the sender of
\* that event (the one who is answered), and of nobody else.
ButtonRegistersPresser ==
    [][\A i \in (Len(users) + 1)..Len(users') :
          /\ users'[i].telegram_id = out'.to
          /\ users'[i].status = "pending"]_vars

\* C31: when an active account presses the upload_task_1 button while a
\* task with id 1 is stored (storage available), it is asked for the file
\* and its session is the upload-file one for that task, at the step that
\* waits for the file.
UploadSelectionStartsFlow ==
    [][(/\ IsActive("h1")
        /\ \E i \in 1..Len(tasks) : tasks[i].id = 1
        /\ HandleCallback("h1", <<"upload", "task", "1">>, TRUE, TRUE, TRUE, TRUE))
       => /\ out'.kind = "ask_file"
          /\ HasSession("h1")'
          /\ SessionOf("h1")' = [action |-> "upload_file", task_id |-> 1,
                                 step |-> "waiting_file"]]_vars

\* C32: with one creation at a time, whatever the offset of the local clock
\* to the storage clock, the code a call has computed is not a stored one,
\* and a call that has computed a code returns it: its INSERT is never
\* refused by the uniqueness of the codes.
SequentialNeverCollides ==
    \A c \in DOMAIN calls :
        /\ calls[c].pc = "insert" => ~CodeTaken(tasks, calls[c].task_code)
        /\ (calls[c].pc = "done" /\ calls[c].task_code /= <<>>)
              => calls[c].result = calls[c].task_code

\* C33: a create_task call that returns a code has added exactly one row to
\* the tasks table, with that code, status to_do, priority normal, the
\* creator and the category of the call, and has left the stored rows as
\* they were; a call that returns no code, and every step before the
\* return, leaves the table unchanged.
CreateTaskPostcondition ==
    [][\A c \in DOMAIN calls :
          IF calls[c].pc /= "done" /\ calls'[c].pc = "done" /\ calls'[c].result /= <<>>
          THEN /\ Len(tasks') = Len(tasks) + 1
               /\ SubSeq(tasks', 1, Len(tasks)) = tasks
               /\ LET row == tasks'[Len(tasks')] IN
                     /\ row.task_code = calls'[c].result
                     /\ row.status = "to_do"
                     /\ row.priority = "normal"
                     /\ row.created_by = calls[c].created_by
                     /\ row.category = calls[c].category
                     /\ \A i \in 1..Len(tasks) : tasks[i].id /= row.id
          ELSE (\A d \in DOMAIN calls : calls'[d].result = calls[d].result)
                  => tasks' = tasks]_vars

\* one call has returned the code of the row it stored, given with its
\* category in capitals; another has returned nothing, its INSERT refused,
\* and one has returned nothing for want of a connection
CreateTaskPostconditionWitness ==
    /\ Len(tasks) = 1
    /\ tasks[1].category = "INSTALLATION"
    /\ \E c, d \in DOMAIN calls :
          /\ calls[c].pc = "done" /\ calls[c].result = tasks[1].task_code
          /\ calls[d].pc = "done" /\ calls[d].result = <<>>
          /\ calls[d].task_code = tasks[1].task_code

\* C34: in every state, whatever the order in which concurrent
\* registrations run their SELECT and their INSERT, no two accounts have
\* the same telegram id.
OneAccountPerHandle ==
    \A i, j \in UserIds :
        users[i].telegram_id = users[j].telegram_id => i = j

\* two registrations of one handle both passed the SELECT before either
\* INSERT; both have returned, one True and one False, and the handle has
\* its one account
OneAccountPerHandleWitness ==
    /\ \E c, d \in DOMAIN calls :
          /\ calls[c].pc = "done" /\ calls[d].pc = "done"
          /\ calls[c].telegram_id = "h1" /\ calls[d].telegram_id = "h1"
          /\ calls[c].result /\ ~calls[d].result
    /\ Cardinality({i \in UserIds : users[i].telegram_id = "h1"}) = 1

\* C35: when the last response is a task list, every callback data on the
\* buttons sent under it (Refresh, Back, the page indicator and Next) that
\* the active account presses is answered by a handler other than the
\* "unknown action" fallback.
SentButtonsRouted ==
    [][\A f \in {"all", "completed"} :
          \/ out /= handle_task_filter("h1", <<"tasks", "filter", f>>, TRUE)
          \/ ~IsActive("h1")
          \/ \A d \in task_filter_keyboard(f, TRUE) :
                HandleCallback("h1", d, TRUE, TRUE, TRUE, TRUE)
                   => out'.kind /= "unknown_action"]_vars

====
